---- MODULE Spec2Model ----
(***************************************************************************)
(* nuxt-og-image: the build module's screenshot queue (src/src/module.ts,  *)
(* the nitro:init hook) and the prerender nitro plugin                     *)
(* (src/unnamed/part_000).                                                 *)
(*                                                                         *)
(* Strings the code inspects (routes, urls, file names) are sequences of   *)
(* tokens, "." and "/" being tokens of their own, so that includes('.'),   *)
(* startsWith and joinURL are computed and not looked up.  Option objects  *)
(* are functions whose DOMAIN is the set of own keys of the JS object.     *)
(***************************************************************************)
EXTENDS Integers, Sequences, FiniteSets, TLC

\* ------------------------------------------------------------------ bounds
MaxQueue == 2
MaxTicks == 2

\* ------------------------------------------------------- strings and urls
Includes(s, tok) == \E i \in 1..Len(s) : s[i] = tok

StartsWith(s, p) == Len(p) <= Len(s) /\ SubSeq(s, 1, Len(p)) = p

WithTrailingSlash(s) == IF Len(s) > 0 /\ s[Len(s)] = "/" THEN s ELSE s \o <<"/">>

WithoutLeadingSlash(s) == IF Len(s) > 0 /\ s[1] = "/" THEN Tail(s) ELSE s

IsNonEmptyURL(s) == s # <<>> /\ s # <<"/">>

JoinTwo(url, i) ==
  IF ~IsNonEmptyURL(i) THEN url
  ELSE IF url = <<>> THEN i
  ELSE WithTrailingSlash(url) \o WithoutLeadingSlash(i)

joinURL(base, a, b) == JoinTwo(JoinTwo(base, a), b)

\* ---------------------------------------------------------- the site built
RouteA == <<"/", "a">>
RouteBP == <<"/", "b", "/", "p">>
RouteDot == <<"/", "s", ".", "x">>
Routes == {RouteA, RouteBP, RouteDot}

publicDir == <<"/", "out">>

\* an options object: own keys -> values
EmptyObj == << >>
Has(o, key) == key \in DOMAIN o

\* the fields whose values are objects themselves; every other value is a scalar
ObjectFields == {"props"}
Truthy(o, key) ==
  Has(o, key) /\ (key \in ObjectFields \/ o[key] \notin {"false", "", "null", "undefined"})

\* {...a, ...b}
Spread(a, b) ==
  [x \in (DOMAIN a) \cup (DOMAIN b) |-> IF x \in DOMAIN b THEN b[x] ELSE a[x]]

\* ------------------------------------------------- markup and directives
\* Rendered markup: empty contents, or a page carrying at most one embedded
\* options payload.
NoDirective == << >>
Page(payload) == [empty |-> FALSE, payload |-> payload]
EmptyMarkup == [empty |-> TRUE, payload |-> NoDirective]

PayloadStatic == [provider |-> "browser", static |-> "true"]
PayloadComponent == [provider |-> "browser", width |-> "900", component |-> "Banner"]
PayloadSatori == [provider |-> "satori", static |-> "true", width |-> "900"]
PayloadBare == [static |-> "true"]

\* the options record embedded in the markup, or nothing (<< >>)
extractOgImageOptions(html) == html.payload

\* ------------------------------------------------------------ route rules
PatternAll == <<"/", "**">>
PatternB == <<"/", "b", "/", "**">>
PatternBP == RouteBP
Patterns == {PatternAll, PatternB, PatternBP}

Undef == [tag |-> "undefined", opts |-> EmptyObj]
Disabled == [tag |-> "false", opts |-> EmptyObj]
Opts(o) == [tag |-> "options", opts |-> o]

Rules(all, b, bp) ==
  [p \in Patterns |-> IF p = PatternAll THEN all ELSE IF p = PatternB THEN b ELSE bp]

RuleConfigs ==
  { Rules(Undef, Undef, Undef),
    Rules(Undef, Opts([width |-> "1000"]), Undef),
    Rules(Opts([width |-> "1100", height |-> "500", props |-> [title |-> "A"]]),
          Opts([width |-> "1000", props |-> [color |-> "red"]]),
          Opts([width |-> "800", height |-> "null"])),
    Rules(Disabled, Undef, Undef),
    Rules(Undef, Disabled, Opts([width |-> "800"])),
    Rules(Opts([provider |-> "browser"]), Opts([width |-> "1000"]), Disabled) }

\* The sites built: what each route renders to.
Site(a, bp, dot) ==
  [r \in Routes |-> IF r = RouteA THEN a ELSE IF r = RouteBP THEN bp ELSE dot]

Sites ==
  { Site(Page(<<PayloadStatic>>), Page(<<PayloadComponent>>), Page(<<PayloadStatic>>)),
    Site(Page(<<PayloadSatori>>), Page(<<PayloadStatic>>), Page(NoDirective)),
    Site(Page(NoDirective), Page(<<PayloadBare>>), EmptyMarkup) }

DefaultsModule == [component |-> "OgImageBasic", width |-> "1200", height |-> "630"]
\* defaults a user configures, naming the provider
DefaultsUser == [provider |-> "browser", width |-> "1200", height |-> "630"]

VARIABLES
  dev,              \* nuxt.options.dev
  generate,         \* nuxt.options._generate
  defaults,         \* config.defaults
  routeRules,       \* nitro.options.routeRules: pattern -> its ogImage rule
  pages,            \* the markup each route of the site renders to
  arrays,           \* the array objects screenshotQueue has referred to
  screenshotQueue   \* the array the variable screenshotQueue refers to now

IsWildcard(p) == Len(p) >= 2 /\ p[Len(p)] = "**"
WildcardKey(p) == SubSeq(p, 1, Len(p) - 2)

RECURSIVE SortByLen(_)
SortByLen(S) ==
  IF S = {} THEN << >>
  ELSE LET m == CHOOSE x \in S : \A y \in S : Len(x) <= Len(y)
       IN <<m>> \o SortByLen(S \ {m})

\* radix3's matchAll: the wildcard matches by ascending key length, then the
\* exact match; each element is the matched rule's ogImage value
matchAll(route) ==
  LET wild == {p \in Patterns : IsWildcard(p) /\ StartsWith(route, WildcardKey(p))}
      exact == {p \in Patterns : ~IsWildcard(p) /\ p = route}
      order == SortByLen(wild) \o SortByLen(exact)
  IN [i \in 1..Len(order) |-> routeRules[order[i]]]

Reverse(s) == [i \in 1..Len(s) |-> s[Len(s) + 1 - i]]

NonNull(o, key) ==
  Has(o, key) /\ (key \in ObjectFields \/ o[key] \notin {"null", "undefined"})

\* defu on two objects: the first argument's non-null fields win, and a field
\* that is an object in both is merged recursively
RECURSIVE DefuObj(_, _)
DefuObj(base, dflt) ==
  [x \in (DOMAIN dflt) \cup {y \in DOMAIN base : NonNull(base, y)} |->
     IF ~NonNull(base, x) THEN dflt[x]
     ELSE IF x \in ObjectFields /\ Has(dflt, x) THEN DefuObj(base[x], dflt[x])
     ELSE base[x]]

\* defu on the ogImage key of two rule objects
DefuRule(base, dflt) ==
  IF base.tag = "undefined" THEN dflt
  ELSE IF base.tag = "options" /\ dflt.tag = "options"
       THEN Opts(DefuObj(base.opts, dflt.opts))
       ELSE base

RECURSIVE DefuAll(_, _)
DefuAll(acc, rest) ==
  IF rest = << >> THEN acc ELSE DefuAll(DefuRule(acc, Head(rest)), Tail(rest))

\* defu({}, ..._routeRulesMatcher.matchAll(route).reverse()).ogImage
routeRulesOgImage(route) == DefuAll(Undef, Reverse(matchAll(route)))

\* routeRules.ogImage || {}
OverlayOrEmpty(rule) == IF rule.tag = "options" THEN rule.opts ELSE EmptyObj

ApiHtmlPath(route) == <<"/", "api", "/", "og-image-html", "?path=">> \o route

entryPath(extracted, route) ==
  IF Truthy(extracted, "component") THEN ApiHtmlPath(route) ELSE route

\* the entry the collection hook builds
Entry(route, extracted, rule) ==
  Spread(Spread([route |-> route, path |-> entryPath(extracted, route)], extracted),
         OverlayOrEmpty(rule))

Skips(extractedOptions, rule) == extractedOptions = << >> \/ rule.tag = "false"

Eligible(entry) == (generate \/ Truthy(entry, "static")) /\ Has(entry, "provider") /\ entry["provider"] = "browser"

\* --------------------------------------------------------------- the drain
\* The calls of captureScreenshots, one by each of the hooks rollup:before and
\* close, numbered in the order the hooks fire.
Hooks == {1, 2}
ExitCodes == {0, 1}
Hosts == {"http://localhost:3000"}
FetchedHtml == "<html>"

VARIABLES
  pc,               \* where each call of captureScreenshots is suspended
  installExit,      \* the exit code the installer's exit handler saw (-1: none yet)
  installError,     \* nitro.logger.error was called for the installer
  previewProcess,   \* "none", "running", "killed"
  browser,          \* "null", "open", "closed"
  host,             \* the address taken from the server's readiness line
  iter,             \* the array iterator of the normalise loop: [arr, i]
  keys,             \* the number of keys the for-in loop enumerates
  k,                \* the key of the capture loop
  entryRoute,       \* entry.route of the capture loop's current entry
  inflight,         \* keys whose screenshot/write has started and not settled
  caught,           \* what the outer catch logged with console.error
  progress,         \* the progress lines logged: [k, route, hasError]
  calls,            \* the screenshot calls made: [drain, arr, k, options]
  fetched,          \* the $fetch calls made: [drain, url, baseURL]
  files,            \* files of the output tree
  optionCache,      \* optionCacheStorage: url -> [value, expiresAt]
  prerenderHeaders, \* the x-nitro-prerender headers appended, by url
  now,              \* Date.now()
  font,             \* the font object loadFont works on
  fontArg,          \* the font object as it was handed to loadFont
  assets,           \* the /assets storage: key -> base64 text
  fontPc,           \* where the call of loadFont is
  fontOps           \* the storage reads and fetches loadFont issued

config == <<dev, generate, defaults, routeRules, pages>>
fontVars == <<font, fontArg, assets, fontPc, fontOps>>
queueVars == <<arrays, screenshotQueue>>
procVars == <<installExit, installError, previewProcess, browser, host>>
loopVars == <<iter, keys, k, entryRoute, inflight, caught, progress, calls>>
ioVars == <<fetched, files>>
pluginVars == <<optionCache, prerenderHeaders, now>>
buildVars == <<config, pluginVars, queueVars, pc, procVars, loopVars, ioVars>>
vars == <<buildVars, fontVars>>

Queue == arrays[screenshotQueue]

Running(d) == pc[d] \notin {"idle", "resolved", "rejected"}
NoDrainRunning == \A d \in Hooks : ~Running(d)

\* Pages are prerendered before the drain that captures them: no page is
\* rendered while a drain is suspended or after one has spawned the installer.
Collecting == \A d \in Hooks : pc[d] = "idle" \/ (pc[d] = "resolved" /\ installExit[d] = -1)

\* the state after setup, whatever config.defaults is
InitBuild ==
  /\ dev \in BOOLEAN
  /\ generate \in BOOLEAN
  /\ ~(dev /\ generate)
  /\ routeRules \in RuleConfigs
  /\ pages \in Sites
  /\ arrays = << << >> >>
  /\ screenshotQueue = 1
  /\ pc = [d \in Hooks |-> "idle"]
  /\ installExit = [d \in Hooks |-> -1]
  /\ installError = [d \in Hooks |-> FALSE]
  /\ previewProcess = [d \in Hooks |-> "none"]
  /\ browser = [d \in Hooks |-> "null"]
  /\ host = [d \in Hooks |-> "none"]
  /\ iter = [d \in Hooks |-> [arr |-> 0, i |-> 0]]
  /\ keys = [d \in Hooks |-> 0]
  /\ k = [d \in Hooks |-> 0]
  /\ entryRoute = [d \in Hooks |-> << >>]
  /\ inflight = [d \in Hooks |-> {}]
  /\ caught = [d \in Hooks |-> "none"]
  /\ progress = [d \in Hooks |-> << >>]
  /\ calls = {}
  /\ fetched = {}
  /\ files = {}
  /\ optionCache = << >>
  /\ prerenderHeaders = {}
  /\ now = 0

\* no font is being loaded
FontIdle ==
  /\ font = << >>
  /\ fontArg = << >>
  /\ assets = << >>
  /\ fontPc = "idle"
  /\ fontOps = << >>

\* a build under the module's own defaults
Init ==
  /\ InitBuild
  /\ defaults = DefaultsModule
  /\ FontIdle

push(entry) == arrays' = [arrays EXCEPT ![screenshotQueue] = Append(@, entry)]

\* the hook reaches screenshotQueue.push(entry) for the render of route
Collects(route) ==
  LET html == pages[route]
      extractedOptions == extractOgImageOptions(html)
      rule == routeRulesOgImage(route)
  IN /\ ~(Includes(route, ".") \/ html.empty \/ Skips(extractedOptions, rule))
     /\ Eligible(Entry(route, extractedOptions[1], rule))

\* nitro.hooks.hook('prerender:generate', ...)
PrerenderGenerate(route) ==
  /\ Collecting
  /\ IF Collects(route)
     THEN /\ Len(Queue) < MaxQueue
          /\ push(Entry(route, extractOgImageOptions(pages[route])[1], routeRulesOgImage(route)))
     ELSE UNCHANGED arrays
  /\ UNCHANGED <<config, fontVars, pluginVars, screenshotQueue, pc, procVars, loopVars, ioVars>>

\* ---- the synchronous code between two awaits of captureScreenshots ----
IsStub(entry) == Has(entry, "route") /\ Cardinality(DOMAIN entry) = 1

\* the defaults spread after the entry
ScreenshotOptionsDefaultsLast(entry, h) == Spread(Spread(entry, defaults), [host |-> h])

\* { ...config.defaults, ...entry, host }
ScreenshotOptions(entry, h) == Spread(Spread(defaults, entry), [host |-> h])

Dirname(route) == joinURL(publicDir, route, <<"/", "__og_image__", "/">>)
Filename(route) == joinURL(Dirname(route), <<"/", "og", ".", "png">>, << >>)

\* the captures not awaited one by one: all remaining keys start at once
JobsStartedAll(kk, n) == kk..n

\* the keys whose capture is started when the loop reaches key kk of n
JobsStarted(kk, n) == {kk}

\* leave the try block: finally awaits browser?.close()
ToFinally(d, what) ==
  /\ pc' = [pc EXCEPT ![d] = "close"]
  /\ caught' = [caught EXCEPT ![d] = what]

\* the head of the capture loop's body for key kk, up to await screenshot(...)
BeginJob(d, arrs, kk, n) ==
  LET q == arrs[screenshotQueue]
  IN /\ k' = [k EXCEPT ![d] = kk]
     /\ IF kk > Len(q)
        THEN \* entry is undefined: entry.route throws outside the inner try
             /\ ToFinally(d, "capture")
             /\ inflight' = [inflight EXCEPT ![d] = @ \ {k[d]}]
             /\ UNCHANGED <<calls, entryRoute>>
        ELSE /\ pc' = [pc EXCEPT ![d] = "screenshot"]
             /\ entryRoute' = [entryRoute EXCEPT ![d] = q[kk]["route"]]
             /\ calls' = calls \cup
                  { [drain |-> d, arr |-> screenshotQueue, k |-> j,
                     options |-> ScreenshotOptions(q[j], host[d])] :
                    j \in {x \in JobsStarted(kk, n) : x <= Len(q)} }
             /\ inflight' = [inflight EXCEPT ![d] = (@ \ {k[d]}) \cup JobsStarted(kk, n)]
             /\ UNCHANGED caught

\* for (const k in screenshotQueue)
StartCaptureLoop(d, arrs) ==
  /\ keys' = [keys EXCEPT ![d] = Len(arrs[screenshotQueue])]
  /\ IF Len(arrs[screenshotQueue]) = 0
     THEN ToFinally(d, "none") /\ UNCHANGED <<k, entryRoute, calls, inflight>>
     ELSE BeginJob(d, arrs, 1, Len(arrs[screenshotQueue]))

NeedsFetch(entry) == IsStub(entry) \/ Truthy(entry, "component")

\* the first entry at or after index i the normalise loop awaits a fetch for
NextNormalise(q, i) ==
  LET J == {j \in i..Len(q) : NeedsFetch(q[j])}
  IN IF J = {} THEN 0 ELSE CHOOSE j \in J : \A x \in J : j <= x

\* for (const entry of screenshotQueue): run from index i to the next await
ContinueNormalise(d, arrs, a, i) ==
  LET q == arrs[a]
      j == NextNormalise(q, i)
  IN IF j # 0
     THEN /\ iter' = [iter EXCEPT ![d] = [arr |-> a, i |-> j]]
          /\ IF IsStub(q[j])
             THEN /\ pc' = [pc EXCEPT ![d] = "fetchRoute"]
                  /\ fetched' = fetched \cup
                       {[drain |-> d, url |-> q[j]["route"], baseURL |-> host[d]]}
             ELSE /\ pc' = [pc EXCEPT ![d] = "fetchHtml"]
                  /\ fetched' = fetched \cup
                       {[drain |-> d, url |-> q[j]["path"], baseURL |-> "none"]}
          /\ UNCHANGED <<keys, k, entryRoute, calls, inflight, caught>>
     ELSE /\ iter' = [iter EXCEPT ![d] = [arr |-> a, i |-> Len(q) + 1]]
          /\ StartCaptureLoop(d, arrs)
          /\ UNCHANGED fetched

\* the hooks registered whatever the mode of the build
HooksRegisteredAlways == TRUE

\* rollup:before and close call captureScreenshots: not registered in dev
\* mode, and registered for a generate build only
HooksRegistered == ~dev /\ generate

\* ------------------------------------------------ captureScreenshots, by await
\* A build hook calls captureScreenshots, which calls the
\* og-image:prerenderScreenshots hook; its handlers may insert route-only stubs.
CaptureScreenshots(d, stubs) ==
  /\ HooksRegistered
  /\ pc[d] = "idle"
  /\ \A c \in Hooks : c < d => pc[c] # "idle"
  /\ Len(Queue) + Len(stubs) <= MaxQueue
  /\ pc' = [pc EXCEPT ![d] = "callHook"]
  /\ arrays' = [arrays EXCEPT ![screenshotQueue] = @ \o stubs]
  /\ UNCHANGED <<config, fontVars, pluginVars, screenshotQueue, procVars, loopVars, ioVars>>

\* the early return left out
QueueNeverEmpty == FALSE

QueueIsEmpty == Len(Queue) = 0

\* the hook returned: return on an empty queue, else spawn the installer
CallHookReturn(d) ==
  /\ pc[d] = "callHook"
  /\ pc' = [pc EXCEPT ![d] = IF QueueIsEmpty THEN "resolved" ELSE "install"]
  /\ UNCHANGED <<config, fontVars, pluginVars, queueVars, procVars, loopVars, ioVars>>

\* a failed install ending the drain
AfterInstallerExitAbort(e) == IF e = 0 THEN "ready" ELSE "resolved"

LogsInstallError(e) == e # 0
AfterInstallerExit(e) == "ready"

\* installChromeProcess.on('exit', ...), then the preview server is spawned
InstallerExit(d, e) ==
  /\ pc[d] = "install"
  /\ installExit' = [installExit EXCEPT ![d] = e]
  /\ installError' = [installError EXCEPT ![d] = LogsInstallError(e)]
  /\ pc' = [pc EXCEPT ![d] = AfterInstallerExit(e)]
  /\ previewProcess' = [previewProcess EXCEPT ![d] =
                          IF AfterInstallerExit(e) = "ready" THEN "running" ELSE @]
  /\ UNCHANGED <<config, fontVars, pluginVars, queueVars, browser, host, loopVars, ioVars>>

\* stdout data including 'Accepting connections at'; then createBrowser()
ServerReady(d, h) ==
  /\ pc[d] = "ready"
  /\ host' = [host EXCEPT ![d] = h]
  /\ pc' = [pc EXCEPT ![d] = "createBrowser"]
  /\ UNCHANGED <<config, fontVars, pluginVars, queueVars, installExit, installError,
                 previewProcess, browser, loopVars, ioVars>>

\* createBrowser() settled: a browser, nothing, or an error
CreateBrowserReturn(d, res) ==
  /\ pc[d] = "createBrowser"
  /\ UNCHANGED <<config, fontVars, pluginVars, queueVars, installExit, installError,
                 previewProcess, host, progress, files>>
  /\ IF res = "browser"
     THEN /\ browser' = [browser EXCEPT ![d] = "open"]
          /\ ContinueNormalise(d, arrays, screenshotQueue, 1)
     ELSE /\ UNCHANGED <<browser, iter, keys, k, entryRoute, inflight, calls, fetched>>
          /\ ToFinally(d, IF res = "throws" THEN "createBrowser" ELSE "none")

\* Object.assign(entry, { path, ...extractedOptions, ...(routeRules.ogImage || {}) })
Complete(entry, extracted, rule) ==
  Spread(entry, Spread(Spread([path |-> entryPath(extracted, entry["route"])], extracted),
                       OverlayOrEmpty(rule)))

\* await $fetch(entry.route, { baseURL }) settled
FetchRouteReturn(d, ok) ==
  /\ pc[d] = "fetchRoute"
  /\ UNCHANGED <<config, fontVars, pluginVars, screenshotQueue, procVars, progress, files>>
  /\ LET a == iter[d].arr
         i == iter[d].i
         entry == arrays[a][i]
         html == pages[entry["route"]]
         extractedOptions == extractOgImageOptions(html)
     IN IF ~ok
        THEN /\ ToFinally(d, "fetch")
             /\ UNCHANGED <<arrays, iter, keys, k, entryRoute, inflight, calls, fetched>>
        ELSE /\ IF extractedOptions = << >>
                THEN \* extractedOptions.component throws a TypeError
                     /\ ToFinally(d, "normalise")
                     /\ UNCHANGED <<arrays, iter, keys, k, entryRoute, inflight, calls, fetched>>
                ELSE LET arrs == [arrays EXCEPT ![a][i] =
                                    Complete(entry, extractedOptions[1],
                                             routeRulesOgImage(entry["route"]))]
                     IN /\ arrays' = arrs
                        /\ ContinueNormalise(d, arrs, a, i)

\* entry.html = await globalThis.$fetch(entry.path) settled
FetchHtmlReturn(d, ok) ==
  /\ pc[d] = "fetchHtml"
  /\ UNCHANGED <<config, fontVars, pluginVars, screenshotQueue, procVars, progress, files>>
  /\ LET a == iter[d].arr
         i == iter[d].i
     IN IF ~ok
        THEN /\ ToFinally(d, "fetch")
             /\ UNCHANGED <<arrays, iter, keys, k, entryRoute, inflight, calls, fetched>>
        ELSE LET arrs == [arrays EXCEPT ![a][i] = Spread(@, [html |-> FetchedHtml])]
             IN /\ arrays' = arrs
                /\ ContinueNormalise(d, arrs, a, i + 1)

\* hasError set for a failed capture only, the write left outside the try
HasErrorCaptureOnly(captured, written) == ~captured

HasError(captured, written) == ~(captured /\ written)

\* without the inner try/catch a job's error leaves the loop
InnerCatchMissing(hasError) == ~hasError

\* the inner try/catch handles the error of a job
InnerCatch(hasError) == TRUE

\* the end of the capture loop's body: the progress line, then the next key
FinishJob(d, captured, written) ==
  IF ~InnerCatch(HasError(captured, written))
  THEN /\ ToFinally(d, "capture")
       /\ inflight' = [inflight EXCEPT ![d] = @ \ {k[d]}]
       /\ UNCHANGED <<k, entryRoute, calls, progress>>
  ELSE /\ progress' = [progress EXCEPT ![d] =
             Append(@, [k |-> k[d], route |-> entryRoute[d],
                        hasError |-> HasError(captured, written)])]
       /\ IF k[d] < keys[d]
          THEN /\ BeginJob(d, arrays, k[d] + 1, keys[d])
          ELSE /\ ToFinally(d, "none")
               /\ inflight' = [inflight EXCEPT ![d] = @ \ {k[d]}]
               /\ UNCHANGED <<k, entryRoute, calls>>

\* await screenshot(browser, options) settled
ScreenshotReturn(d, ok) ==
  /\ pc[d] = "screenshot"
  /\ UNCHANGED <<config, fontVars, pluginVars, queueVars, procVars, iter, keys, ioVars>>
  /\ IF ok
     THEN /\ pc' = [pc EXCEPT ![d] = "writeFile"]
          /\ UNCHANGED <<k, entryRoute, inflight, caught, progress, calls>>
     ELSE FinishJob(d, FALSE, FALSE)

\* await mkdirp(dirname), its error swallowed, and await writeFile(filename,
\* imgBuffer) settled
WriteFileReturn(d, ok) ==
  /\ pc[d] = "writeFile"
  /\ files' = IF ok THEN files \cup {Filename(entryRoute[d])} ELSE files
  /\ FinishJob(d, TRUE, ok)
  /\ UNCHANGED <<config, fontVars, pluginVars, queueVars, procVars, iter, keys, fetched>>

\* what finally and the statement after it do once browser?.close() resolved
KillsPreview(what) == TRUE
ClearsQueue(what) == TRUE

\* await browser?.close() settled; then previewProcess.kill(), screenshotQueue = []
CloseReturn(d, ok) ==
  /\ pc[d] = "close"
  /\ ~ok => browser[d] = "open"
  /\ UNCHANGED <<config, fontVars, pluginVars, installExit, installError, host, loopVars, ioVars>>
  /\ IF ok
     THEN /\ browser' = [browser EXCEPT ![d] = IF @ = "open" THEN "closed" ELSE @]
          /\ previewProcess' = [previewProcess EXCEPT ![d] =
                                  IF KillsPreview(caught[d]) THEN "killed" ELSE @]
          /\ IF ClearsQueue(caught[d])
             THEN /\ arrays' = Append(arrays, << >>)
                  /\ screenshotQueue' = Len(arrays) + 1
             ELSE UNCHANGED queueVars
          /\ pc' = [pc EXCEPT ![d] = "resolved"]
     ELSE /\ pc' = [pc EXCEPT ![d] = "rejected"]
          /\ UNCHANGED <<browser, previewProcess, queueVars>>

\* --------------------------------------------- the prerender nitro plugin
IslandPrefix == <<"/", "__nuxt_island", "/">>
IslandUrl == IslandPrefix \o <<"c">>
Urls == Routes \cup {IslandUrl}

\* ctx.head.join('\n') of the response rendered for url
headOf(url) == IF url \in Routes THEN pages[url] ELSE Page(<<PayloadStatic>>)

\* process.env.prerender is set while nitro prerenders, which a dev server never does
prerenderEnv == ~dev

\* the module option forcePrerender, at its default
forcePrerender == ~dev /\ generate

StaticTtlMs == 60 * 60 * 1000
DynamicTtlMs == 5 * 1000
TickMs == 1000 + 500

\* one expiry for every entry, static or not
TtlUniform(options) == DynamicTtlMs

Ttl(options) == IF Truthy(options, "static") THEN StaticTtlMs ELSE DynamicTtlMs

setItem(url, item) ==
  optionCache' = [x \in (DOMAIN optionCache) \cup {url} |->
                    IF x = url THEN item ELSE optionCache[x]]

OgPngUrl(url) == joinURL(url, <<"/", "__og_image__", "/", "og", ".", "png">>, << >>)

\* nitroApp.hooks.hook('render:html', ...)
RenderHtml(url) ==
  /\ prerenderEnv
  /\ LET options == extractOgImageOptions(headOf(url))
     IN IF Includes(url, ".") \/ StartsWith(url, IslandPrefix) \/ options = << >>
        THEN UNCHANGED <<optionCache, prerenderHeaders>>
        ELSE /\ setItem(url, [value |-> options[1], expiresAt |-> now + Ttl(options[1])])
             /\ prerenderHeaders' =
                  IF (forcePrerender \/ Truthy(options[1], "static"))
                     /\ Has(options[1], "provider") /\ options[1]["provider"] = "satori"
                  THEN prerenderHeaders \cup {[url |-> url, value |-> OgPngUrl(url)]}
                  ELSE prerenderHeaders
  /\ UNCHANGED <<config, fontVars, now, queueVars, pc, procVars, loopVars, ioVars>>

\* time passes
Tick ==
  /\ now < MaxTicks * TickMs
  /\ now' = now + TickMs
  /\ UNCHANGED <<config, fontVars, optionCache, prerenderHeaders, queueVars, pc, procVars,
                 loopVars, ioVars>>

\* ------------------------------------------------------------- loadFont
\* Base64 text is a sequence of sextets, 64 standing for the padding '='.
TextA == <<16, 16, 64, 64>>
TextAB == <<16, 20, 8, 64>>
Texts == {TextA, TextAB}

\* Buffer.from(text, 'base64')
RECURSIVE Base64Decode(_)
Base64Decode(t) ==
  IF Len(t) < 4 THEN << >>
  ELSE LET b1 == t[1] * 4 + t[2] \div 16
           b2 == (t[2] % 16) * 16 + t[3] \div 4
           b3 == (t[3] % 4) * 64 + t[4]
           bytes == IF t[3] = 64 THEN <<b1>>
                    ELSE IF t[4] = 64 THEN <<b1, b2>>
                    ELSE <<b1, b2, b3>>
       IN bytes \o Base64Decode(SubSeq(t, 5, Len(t)))

FontKeys == {"k1", "k2"}
FontPath == <<"/", "fonts", "/", "inter", ".", "ttf">>
InlineData == <<1, 2>>
FetchedData == {<<7>>, <<8, 9>>}

\* the fonts loadFont is called with: name and weight, and any of data, key, path
Fonts ==
  { Spread(Spread(Spread([name |-> "Inter", weight |-> w], d), kk), p) :
      w \in {"400", "700"},
      d \in {<< >>, [data |-> InlineData]},
      kk \in {<< >>, [key |-> "k1"], [key |-> ""]},
      p \in {<< >>, [path |-> FontPath], [path |-> << >>]} }

AssetStores == UNION {[ks -> Texts] : ks \in SUBSET FontKeys}

HasData(f) == Has(f, "data")
HasKey(f) == Has(f, "key") /\ f["key"] # ""
HasPath(f) == Has(f, "path") /\ f["path"] # << >>

FontEndpoint(name, weight) ==
  <<"/", "__og-image__", "/", "font", "/", name, "/", weight, ".", "ttf">>

\* every font fetched from the font endpoint
FetchRequestEndpoint(f) ==
  [op |-> "fetch", url |-> FontEndpoint(f["name"], f["weight"]), baseURL |-> "none"]

\* the request of e.$fetch: the local path when the font has one
FetchRequest(f) ==
  IF HasPath(f)
  THEN [op |-> "fetch", url |-> f["path"], baseURL |-> "nitroOrigin"]
  ELSE [op |-> "fetch", url |-> FontEndpoint(f["name"], f["weight"]), baseURL |-> "none"]

\* neither inline data nor a cache entry: fetch
StartFetch ==
  /\ fontPc' = "fetch"
  /\ fontOps' = Append(fontOps, FetchRequest(font))

\* loadFont is called: inline data returns at once, a key asks the storage
LoadFont ==
  /\ fontPc = "called"
  /\ IF HasData(font)
     THEN fontPc' = "returned" /\ UNCHANGED fontOps
     ELSE IF HasKey(font)
          THEN /\ fontPc' = "hasItem"
               /\ fontOps' = Append(fontOps, [op |-> "hasItem", key |-> font["key"]])
          ELSE StartFetch
  /\ UNCHANGED <<buildVars, font, fontArg, assets>>

\* await assets.hasItem(font.key) settled
HasItemReturn ==
  /\ fontPc = "hasItem"
  /\ IF font["key"] \in DOMAIN assets
     THEN /\ fontPc' = "getItem"
          /\ fontOps' = Append(fontOps, [op |-> "getItem", key |-> font["key"]])
     ELSE StartFetch
  /\ UNCHANGED <<buildVars, font, fontArg, assets>>

\* await assets.getItem(font.key) settled
GetItemReturn ==
  /\ fontPc = "getItem"
  /\ font' = Spread(font, [data |-> Base64Decode(assets[font["key"]])])
  /\ fontPc' = "returned"
  /\ UNCHANGED <<buildVars, fontArg, assets, fontOps>>

\* await e.$fetch(...) settled
FontFetchReturn(ok, data) ==
  /\ fontPc = "fetch"
  /\ IF ok
     THEN font' = Spread(font, [data |-> data]) /\ fontPc' = "returned"
     ELSE fontPc' = "rejected" /\ UNCHANGED font
  /\ UNCHANGED <<buildVars, fontArg, assets, fontOps>>

\* ------------------------------------------------------- specifications
Environment ==
  \/ \E r \in Routes : PrerenderGenerate(r)

Drain(d) ==
  \/ CallHookReturn(d)
  \/ \E e \in ExitCodes : InstallerExit(d, e)
  \/ \E h \in Hosts : ServerReady(d, h)
  \/ \E res \in {"browser", "null", "throws"} : CreateBrowserReturn(d, res)
  \/ \E ok \in BOOLEAN : FetchRouteReturn(d, ok)
  \/ \E ok \in BOOLEAN : FetchHtmlReturn(d, ok)
  \/ \E ok \in BOOLEAN : ScreenshotReturn(d, ok)
  \/ \E ok \in BOOLEAN : WriteFileReturn(d, ok)
  \/ \E ok \in BOOLEAN : CloseReturn(d, ok)

Stubs == {<< >>} \cup {<<[route |-> r]>> : r \in Routes}

\* The build awaits each hook: a drain starts only when no other is suspended.
Next ==
  \/ Environment
  \/ \E d \in Hooks, stubs \in Stubs : NoDrainRunning /\ CaptureScreenshots(d, stubs)
  \/ \E d \in Hooks : Drain(d)

Spec == Init /\ [][Next]_vars

\* The second hook may call captureScreenshots while the first call is suspended.
NextOverlap ==
  \/ Environment
  \/ \E d \in Hooks, stubs \in Stubs : CaptureScreenshots(d, stubs)
  \/ \E d \in Hooks : Drain(d)

\* Overlapping calls are explored for generate builds of every site, under two
\* rule sets.
InitOverlap ==
  /\ Init
  /\ generate
  /\ routeRules \in {Rules(Undef, Undef, Undef), Rules(Disabled, Undef, Undef)}

SpecOverlap == InitOverlap /\ [][NextOverlap]_vars

\* Prerendering: the pages are rendered (render:html in the prerender server,
\* prerender:generate in the build) while time passes.
NextRender ==
  \/ Environment
  \/ \E url \in Urls : RenderHtml(url)
  \/ Tick

\* Page renders are explored under the module's defaults and under defaults
\* that name the provider.
InitRender ==
  /\ InitBuild
  /\ defaults \in {DefaultsModule, DefaultsUser}
  /\ FontIdle

SpecRender == InitRender /\ [][NextRender]_vars

\* The renderer calls loadFont with a font and a storage.
InitFont ==
  /\ InitBuild
  /\ ~dev /\ generate
  /\ routeRules = Rules(Undef, Undef, Undef)
  /\ pages = Site(Page(NoDirective), Page(<<PayloadBare>>), EmptyMarkup)
  /\ defaults = DefaultsModule
  /\ fontArg \in Fonts
  /\ font = fontArg
  /\ assets \in AssetStores
  /\ fontPc = "called"
  /\ fontOps = << >>

NextFont ==
  \/ LoadFont
  \/ HasItemReturn
  \/ GetItemReturn
  \/ \E ok \in BOOLEAN, data \in FetchedData : FontFetchReturn(ok, data)

SpecFont == InitFont /\ [][NextFont]_vars

\* A drain in which every external call returns: the installer exits, the
\* server reports its address, a browser is launched, fetches resolve, captures
\* and writes settle either way, and the browser closes.
DrainReturns(d) ==
  \/ CallHookReturn(d)
  \/ \E e \in ExitCodes : InstallerExit(d, e)
  \/ \E h \in Hosts : ServerReady(d, h)
  \/ CreateBrowserReturn(d, "browser")
  \/ FetchHtmlReturn(d, TRUE)
  \/ \E ok \in BOOLEAN : ScreenshotReturn(d, ok)
  \/ \E ok \in BOOLEAN : WriteFileReturn(d, ok)
  \/ CloseReturn(d, TRUE)

\* a registered hook fires and calls captureScreenshots; no handler inserts stubs
HookFires(d) == NoDrainRunning /\ CaptureScreenshots(d, << >>)

NextLive ==
  \/ Environment
  \/ \E d \in Hooks : HookFires(d)
  \/ \E d \in Hooks : DrainReturns(d)

\* The build fires each of its hooks, and every call a drain awaits returns.
Fairness ==
  \A d \in Hooks : WF_vars(HookFires(d)) /\ WF_vars(DrainReturns(d))

SpecLive == Init /\ [][NextLive]_vars /\ Fairness

\* ================================================================= claims
\* the array a drain iterates
Drained(d) == arrays[iter[d].arr]

\* the drain has left its capture loop (it did not stop before reaching it)
PastCapturePass(d) ==
  /\ pc[d] \in {"close", "resolved", "rejected"}
  /\ browser[d] # "null"
  /\ caught[d] \notin {"createBrowser", "fetch", "normalise"}

AllAttempted(d) ==
  /\ Len(progress[d]) = keys[d]
  /\ \A j \in 1..keys[d] :
       /\ progress[d][j].k = j
       /\ progress[d][j].route = Drained(d)[j]["route"]
       /\ \E c \in calls : c.drain = d /\ c.arr = iter[d].arr /\ c.k = j

\* C1: in the capture pass every one of the n queued jobs is attempted, whatever
\* subset of them fails: when a drain leaves the capture pass there is one
\* progress line and one screenshot call per job of the queue, in queue order.
C1_EveryJobAttempted ==
  \A d \in Hooks :
    /\ pc[d] \in {"screenshot", "writeFile"} =>
         iter[d].arr = screenshotQueue /\ keys[d] = Len(Queue)
    /\ PastCapturePass(d) => AllAttempted(d)

C1_Witness ==
  \E d \in Hooks :
    /\ PastCapturePass(d)
    /\ Len(progress[d]) = 2
    /\ progress[d][1].hasError
    /\ ~progress[d][2].hasError

\* C2: when a call of captureScreenshots that spawned the preview server
\* finishes, by whatever path, the browser is not left open, the preview server
\* has been killed and the queue is empty.
C2_TeardownUnconditional ==
  [][\A d \in Hooks :
       (Running(d) /\ pc'[d] \in {"resolved", "rejected"} /\ previewProcess[d] # "none") =>
         /\ browser'[d] # "open"
         /\ previewProcess'[d] = "killed"
         /\ Len(arrays'[screenshotQueue']) = 0]_vars

DisabledRoute(route) == routeRulesOgImage(route).tag = "false"

\* C3: a route whose most specific overlay disables generation never becomes a
\* job: no entry of the queue for it is more than a route-only stub, and no
\* screenshot is taken of it.
C3_DisabledRouteYieldsNoJob ==
  /\ \A a \in DOMAIN arrays : \A i \in DOMAIN arrays[a] :
       DisabledRoute(arrays[a][i]["route"]) => IsStub(arrays[a][i])
  /\ \A c \in calls : ~DisabledRoute(c.options["route"])

Without(o, ks) == [x \in (DOMAIN o) \ ks |-> o[x]]

RECURSIVE SpreadAll(_)
SpreadAll(objs) ==
  IF objs = << >> THEN EmptyObj
  ELSE Spread(SpreadAll(SubSeq(objs, 1, Len(objs) - 1)), objs[Len(objs)])

Directive(route) == pages[route].payload[1]

\* the overlays matching a route, least specific first
Overlays(route) ==
  [i \in 1..Len(matchAll(route)) |-> OverlayOrEmpty(matchAll(route)[i])]

\* merge(d, e, o1, o2, ...): a later argument wins, field by field
MergeLaw(route) == SpreadAll(<<defaults, Directive(route)>> \o Overlays(route))

Max(S) == CHOOSE x \in S : \A y \in S : y <= x
Min(S) == CHOOSE x \in S : \A y \in S : x <= y

\* The overlays of a route combined field by field: the most specific overlay
\* holding a non-null value for a field wins, an object-valued field is
\* combined in the same way, and a field no overlay holds a value for is null
\* when the least specific overlay names it.
RECURSIVE Combine(_)
Combine(ovs) ==
  LET fields == UNION {DOMAIN ovs[i] : i \in DOMAIN ovs}
      holders(f) == {i \in DOMAIN ovs : NonNull(ovs[i], f)}
      kept == {f \in fields : holders(f) # {} \/ Has(ovs[Min(DOMAIN ovs)], f)}
  IN [f \in kept |->
        IF holders(f) = {} THEN ovs[Min(DOMAIN ovs)][f]
        ELSE IF f \in ObjectFields
             THEN Combine([i \in holders(f) |-> ovs[i][f]])
             ELSE ovs[Max(holders(f))][f]]

OverlayLaw(route) ==
  LET m == matchAll(route)
      I == {i \in 1..Len(m) : m[i].tag = "options"}
  IN IF I = {} THEN EmptyObj ELSE Combine([i \in I |-> m[i].opts])

C5_DotRouteNeverResolved ==
  /\ \A a \in DOMAIN arrays : \A i \in DOMAIN arrays[a] :
       Includes(arrays[a][i]["route"], ".") => IsStub(arrays[a][i])
  /\ \A c \in calls : ~Includes(c.options["route"], ".")
  /\ \A url \in DOMAIN optionCache : ~Includes(url, ".")

SucceededRoutes ==
  {progress[d][j].route : <<d, j>> \in
     {x \in Hooks \X (1..MaxQueue + 1) : x[2] <= Len(progress[x[1]])
                                         /\ ~progress[x[1]][x[2]].hasError}}

\* C6: the output tree holds <publicDir>/<route>/__og_image__/og.png exactly
\* for the routes a job of which was captured and written without error.
C6_FileIffCaptured ==
  files = {<<"/", "out">> \o r \o <<"/", "__og_image__", "/", "og", ".", "png">> :
             r \in SucceededRoutes}

C6_Witness ==
  \E d \in Hooks :
    /\ pc[d] = "resolved"
    /\ Len(progress[d]) = 2
    /\ progress[d][1].route = RouteA /\ progress[d][1].hasError
    /\ progress[d][2].route = RouteBP /\ ~progress[d][2].hasError
    /\ files = {<<"/", "out", "/", "b", "/", "p", "/", "__og_image__", "/", "og", ".", "png">>}

\* C7: the capture loop runs in queue order, one job at a time: at most one
\* capture is in flight, it is the job after the last progress line, and no
\* screenshot call was made for a later job.
C7_SequentialCapture ==
  \A d \in Hooks :
    /\ Cardinality(inflight[d]) <= 1
    /\ \A j \in 1..Len(progress[d]) : progress[d][j].k = j
    /\ pc[d] \in {"screenshot", "writeFile"} =>
         inflight[d] = {k[d]} /\ k[d] = Len(progress[d]) + 1
    /\ pc[d] \notin {"screenshot", "writeFile"} => inflight[d] = {}
    /\ \A c \in calls : c.drain = d =>
         c.k <= Len(progress[d]) + (IF pc[d] \in {"screenshot", "writeFile"} THEN 1 ELSE 0)

C7_Witness ==
  \E d \in Hooks :
    /\ pc[d] = "screenshot"
    /\ k[d] = 2
    /\ Len(progress[d]) = 1
    /\ Cardinality({c \in calls : c.drain = d}) = 2

\* a job that was never a route-only stub completed from a fetch: one the
\* collection hook enqueued
Collected(c) ==
  ~\E f \in fetched : f.url = c.options["route"] /\ f.baseURL # "none"

\* C8: every job enqueued during collection is handed to the capture
\* operation at most once, whatever the order and interleaving of the two
\* calls of captureScreenshots.
C8_DrainedAtMostOnce ==
  \A c1 \in calls : \A c2 \in calls :
    (Collected(c1) /\ c1.arr = c2.arr /\ c1.k = c2.k) => c1.drain = c2.drain

\* C9: a call of captureScreenshots that finds the queue empty after the hook
\* returns at once: it spawns nothing, fetches nothing, writes nothing and
\* leaves the queue empty.
C9_EmptyDrainIsNoOp ==
  [][\A d \in Hooks :
       (pc[d] = "callHook" /\ Len(Queue) = 0 /\ pc'[d] # pc[d]) =>
         /\ pc'[d] = "resolved"
         /\ installExit'[d] = -1
         /\ previewProcess'[d] = "none"
         /\ browser'[d] = "null"
         /\ UNCHANGED <<fetched, files, calls, queueVars>>
         /\ Len(arrays'[screenshotQueue']) = 0]_vars

C9_Witness ==
  \E d \in Hooks :
    /\ pc[d] = "resolved"
    /\ installExit[d] = -1
    /\ \E c \in Hooks : c # d /\ pc[c] = "resolved" /\ installExit[c] # -1

\* C10: whatever the installer's exit code, the drain goes on: the preview
\* server is spawned, a non-zero code is only logged, and a drain that reaches
\* the capture pass attempts every job.
C10_InstallerFailureNonFatal ==
  \A d \in Hooks :
    /\ installError[d] <=> (installExit[d] \notin {-1, 0})
    /\ installExit[d] # -1 => previewProcess[d] # "none" /\ pc[d] # "install"
    /\ pc[d] \in {"resolved", "rejected"} /\ Len(progress[d]) > 0 => installExit[d] # -1
    /\ (installExit[d] \notin {-1, 0} /\ PastCapturePass(d)) => AllAttempted(d)

C10_Witness ==
  \E d \in Hooks :
    /\ installExit[d] = 1
    /\ installError[d]
    /\ pc[d] = "resolved"
    /\ Len(progress[d]) = 2
    /\ ~progress[d][2].hasError

\* C11: no failure of the drain reaches the build: every call of
\* captureScreenshots made by a build hook completes normally, whatever fails
\* while waiting for the server, launching the browser, completing, capturing,
\* writing or tearing down.
C11_BuildNeverAborts ==
  \A d \in Hooks : pc[d] # "rejected"

\* the options resolution yields for a route: defaults, directive, overlay
Resolved(route) ==
  Spread(Spread(defaults, Directive(route)), OverlayOrEmpty(routeRulesOgImage(route)))

\* the renders the queue is to receive a job for
ShouldCollect(route) ==
  /\ ~pages[route].empty
  /\ ~Includes(route, ".")
  /\ pages[route].payload # NoDirective
  /\ ~DisabledRoute(route)
  /\ Has(Resolved(route), "provider") /\ Resolved(route)["provider"] = "browser"
  /\ generate \/ Truthy(Entry(route, Directive(route), routeRulesOgImage(route)), "static")

\* C12: the render of a page appends a job to the queue if and only if its
\* markup is non-empty, its route has no '.', a directive was extracted, the
\* overlays do not disable generation, the provider of the resolved options
\* (defaults, directive, overlays) is the browser, and the build is a full
\* static export or the entry is static.
C12_CollectionEligibility ==
  \A r \in Routes :
    Collects(r) <=> ShouldCollect(r)

\* C13: every option-cache entry a render writes expires 3,600,000 ms after
\* the write when its options are static and 5,000 ms after it otherwise.
C13_AsymmetricExpiry ==
  [][\A url \in DOMAIN optionCache' :
       (url \notin DOMAIN optionCache \/ optionCache'[url] # optionCache[url]) =>
         optionCache'[url].expiresAt =
           now + (IF Truthy(optionCache'[url].value, "static") THEN 3600000 ELSE 5000)]_vars

\* a static and a dynamic entry written at the same instant
C13_Witness ==
  \E u1 \in DOMAIN optionCache : \E u2 \in DOMAIN optionCache :
    /\ Truthy(optionCache[u1].value, "static")
    /\ ~Truthy(optionCache[u2].value, "static")
    /\ optionCache[u1].expiresAt = now + 3600000
    /\ optionCache[u2].expiresAt = now + 5000
    /\ optionCache[u1].expiresAt > optionCache[u2].expiresAt
    /\ now > 0

\* C14: in development mode no drain ever starts: no call of
\* captureScreenshots is made, nothing is spawned, fetched or captured and no
\* file is written, whatever the queue holds.
C14_DevNeverDrains ==
  dev =>
    /\ \A d \in Hooks :
         /\ pc[d] = "idle"
         /\ installExit[d] = -1
         /\ previewProcess[d] = "none"
         /\ browser[d] = "null"
    /\ calls = {}
    /\ fetched = {}
    /\ files = {}

\* a development build whose queue holds a job
C14_Witness ==
  /\ dev
  /\ Len(Queue) > 0
  /\ \A d \in Hooks : pc[d] = "idle"

FontFetches == {i \in 1..Len(fontOps) : fontOps[i].op = "fetch"}
FontReads == {i \in 1..Len(fontOps) : fontOps[i].op \in {"hasItem", "getItem"}}

\* C15: loadFont takes the font data from one source, in the order inline
\* data, cache entry under the font's key, local path, font endpoint: inline
\* data is returned unchanged with no cache read and no fetch; a cached entry
\* is decoded from base64 with no fetch; otherwise one fetch is made, of the
\* local path when there is one and of the font endpoint if not; and no
\* operation of loadFont writes to the storage.
C15_LoadFontPriority ==
  /\ \A i \in 1..Len(fontOps) : fontOps[i].op \in {"hasItem", "getItem", "fetch"}
  /\ HasData(fontArg) => FontFetches = {} /\ FontReads = {} /\ font = fontArg
  /\ fontPc = "returned" =>
       IF HasData(fontArg) THEN font = fontArg
       ELSE IF HasKey(fontArg) /\ fontArg["key"] \in DOMAIN assets
       THEN /\ font = Spread(fontArg, [data |-> Base64Decode(assets[fontArg["key"]])])
            /\ FontFetches = {}
       ELSE /\ Cardinality(FontFetches) = 1
            /\ \A i \in FontFetches :
                 fontOps[i].url =
                   IF Has(fontArg, "path") /\ fontArg["path"] # << >>
                   THEN fontArg["path"]
                   ELSE <<"/", "__og-image__", "/", "font", "/",
                          fontArg["name"], "/", fontArg["weight"], ".", "ttf">>
            /\ font["data"] \in FetchedData

\* a cached font decoded and returned without a fetch although it has a path
C15_Witness ==
  /\ fontPc = "returned"
  /\ ~HasData(fontArg)
  /\ HasPath(fontArg)
  /\ HasKey(fontArg)
  /\ "k1" \in DOMAIN assets
  /\ assets["k1"] = <<16, 20, 8, 64>>
  /\ font["data"] = <<65, 66>>
  /\ FontFetches = {}

\* C16: when the completion of one queued job fails (a fetch fails, or the
\* fetched markup carries no directive), every other job of the queue has been
\* handed to the capture operation when the drain reaches its teardown.
C16_CompletionFailureIsolated ==
  \A d \in Hooks :
    (pc[d] = "close" /\ caught[d] \in {"fetch", "normalise"}) =>
      \A j \in 1..Len(Drained(d)) :
        j # iter[d].i => \E c \in calls : c.drain = d /\ c.arr = iter[d].arr /\ c.k = j

\* C17: a drain launches no browser, fetches nothing and captures nothing
\* before the preview server printed its readiness line, and every fetch and
\* every capture of the drain is addressed to the host read from that line.
C17_ReadinessOrdering ==
  /\ \A d \in Hooks :
       host[d] = "none" =>
         /\ browser[d] = "null"
         /\ pc[d] \in {"idle", "callHook", "install", "ready", "resolved"}
         /\ \A f \in fetched : f.drain # d
         /\ \A c \in calls : c.drain # d
  /\ \A f \in fetched : f.baseURL = host[f.drain]
  /\ \A c \in calls : c.options["host"] = host[c.drain]

\* C18: an option-cache entry is not changed before it expires: no step taken
\* before expiresAt changes the entry's value or its expiresAt.
C18_CacheEntryReadOnly ==
  [][\A url \in DOMAIN optionCache :
       now < optionCache[url].expiresAt =>
         url \in DOMAIN optionCache' /\ optionCache'[url] = optionCache[url]]_vars

\* C19: every job handed to the capture operation names a provider and a path,
\* whether the collection hook enqueued it or a route-only stub was completed.
C19_JobsFullyResolved ==
  \A c \in calls :
    /\ Truthy(c.options, "provider")
    /\ Has(c.options, "path") /\ c.options["path"] # << >>

Queued(route) ==
  \E a \in DOMAIN arrays : \E i \in DOMAIN arrays[a] : arrays[a][i]["route"] = route

HeaderSent(route) == \E h \in prerenderHeaders : h.url = route

\* C20: no page gets both a browser-capture job from the collection hook and
\* the x-nitro-prerender header for its og.png from the render:html plugin,
\* and a route whose overlay disables generation gets neither.
C20_AtMostOnePath ==
  \A r \in Routes :
    /\ ~(Queued(r) /\ HeaderSent(r))
    /\ DisabledRoute(r) => ~Queued(r) /\ ~HeaderSent(r)

\* C21: in a build that is not a development build, every job the collection
\* hook appended to the queue before the close hook fired is eventually handed
\* to the capture operation.
C21_NoJobDropped ==
  \A r \in Routes :
    (~dev /\ Queued(r) /\ pc[2] = "idle") ~> (\E c \in calls : c.options["route"] = r)
====
